---- MODULE Spec2Model ----
(***************************************************************************)
(* Model of src/src/App.js: the App component's selection store            *)
(* (selectedData / selectedProfile), its two fetches, and the view-model   *)
(* derivations computed on every render (getTimeValue, formatTimestamp,    *)
(* the per-metric seriesData and the table rows).                          *)
(***************************************************************************)
EXTENDS Integers, Sequences, FiniteSets

VARIABLES
    profiles,         \* useState([]) : list of profiles from /api/profiles
    profilesReq,      \* the useEffect fetch: "pending" | "ok" | "failed"
    requests,         \* telemetry fetches issued by handleClick, in issue order
    arrays,           \* arrays[k] = contents of the array object res.data of request k
    selectedData,     \* 0 = null, k = reference to the array of request k
    selectedProfile,  \* NullName = null, otherwise a display name
    errors,           \* console.error calls so far
    resolveOrder,     \* request indices in the order their promise settled
    pc,               \* "idle" | "then47" (between the two setState calls) | "render"
    cur,              \* request whose .then callback is running (0 = none)
    view              \* output of the last render

vars == <<profiles, profilesReq, requests, arrays, selectedData, selectedProfile,
          errors, resolveOrder, pc, cur, view>>

----------------------------------------------------------------------------
(* Bounds *)

MaxRequests == 2

MaxLen == 3

MaxMixedLen == 2

----------------------------------------------------------------------------
(* JavaScript values *)

Undefined == [t |-> "undefined", n |-> 0, s |-> ""]

Null == [t |-> "null", n |-> 0, s |-> ""]

JNum(n) == [t |-> "number", n |-> n, s |-> ""]

JStr(s) == [t |-> "string", n |-> 0, s |-> s]

JObj == [t |-> "object", n |-> 0, s |-> ""]

\* ToBoolean
Truthy(v) ==
    CASE v.t = "number" -> v.n # 0
      [] v.t = "string" -> v.s # ""
      [] v.t = "object" -> TRUE
      [] OTHER -> FALSE

\* x != null
NotNullish(v) == v.t \notin {"undefined", "null"}

\* A timestamp field: a primitive, or an object whose $date sub-field is `date`
\* (Undefined when the object has no $date).
TsPrim(v) == [t |-> v.t, n |-> v.n, s |-> v.s, date |-> Undefined]

TsObj(d) == [t |-> "object", n |-> 0, s |-> "", date |-> d]

AsPrim(ts) == [t |-> ts.t, n |-> ts.n, s |-> ts.s]

\* entry.timestamp.$date : property access on a primitive yields undefined
DateField(ts) == IF ts.t = "object" THEN ts.date ELSE Undefined

----------------------------------------------------------------------------
(* Date *)

NaN == [nan |-> TRUE, ms |-> 0]

Ms(n) == [nan |-> FALSE, ms |-> n]

\* Date.parse on the strings of the model
DateParse(s) ==
    CASE s = "1970-01-01T00:00:01Z" -> Ms(1000)
      [] s = "1970-01-01T00:00:01.500Z" -> Ms(1500)
      [] s = "1970-01-01T00:00:02Z" -> Ms(2000)
      [] OTHER -> NaN

\* new Date(v).getTime()
NewDate(v) ==
    CASE v.t = "number" -> Ms(v.n)
      [] v.t = "string" -> DateParse(v.s)
      [] v.t = "null" -> Ms(0)
      [] OTHER -> NaN

MsPerSecond == 1000

Text(s) == [text |-> s, sec |-> 0]

\* Date.prototype.toLocaleString: date and time to the second
toLocaleString(d) ==
    IF d.nan THEN Text("Invalid Date")
    ELSE [text |-> "date", sec |-> d.ms \div MsPerSecond]

----------------------------------------------------------------------------
(* Timestamp resolution *)

getTimeValue(entry) ==
    IF Truthy(entry.timestamp)
    THEN IF Truthy(DateField(entry.timestamp))
         THEN NewDate(DateField(entry.timestamp))
         ELSE IF entry.timestamp.t = "string"
              THEN NewDate(AsPrim(entry.timestamp))
              ELSE IF entry.timestamp.t = "number"
                   THEN Ms(entry.timestamp.n)
                   ELSE Ms(0)
    ELSE Ms(0)

formatTimestamp(entry) ==
    IF Truthy(entry.timestamp)
    THEN IF Truthy(DateField(entry.timestamp))
         THEN toLocaleString(NewDate(DateField(entry.timestamp)))
         ELSE IF entry.timestamp.t = "string"
              THEN toLocaleString(NewDate(AsPrim(entry.timestamp)))
              ELSE IF entry.timestamp.t = "number"
                   THEN toLocaleString(NewDate(AsPrim(entry.timestamp)))
                   ELSE Text("Invalid")
    ELSE Text("Invalid")

dateStr(entry) ==
    IF Truthy(entry.timestamp)
    THEN IF Truthy(DateField(entry.timestamp))
         THEN toLocaleString(NewDate(DateField(entry.timestamp)))
         ELSE IF entry.timestamp.t = "string"
              THEN toLocaleString(NewDate(AsPrim(entry.timestamp)))
              ELSE IF entry.timestamp.t = "number"
                   THEN toLocaleString(NewDate(AsPrim(entry.timestamp)))
                   ELSE Text("Invalid or Missing Date")
    ELSE Text("Invalid or Missing Date")

----------------------------------------------------------------------------
(* Array.prototype.sort *)

\* Sign of the comparator's result as sort sees it: a NaN result counts as +0.
\* dir = "asc" is getTimeValue(a) - getTimeValue(b), "desc" the reverse.
Compare(a, b, dir) ==
    LET ta == getTimeValue(a)
        tb == getTimeValue(b)
        x  == IF dir = "asc" THEN ta ELSE tb
        y  == IF dir = "asc" THEN tb ELSE ta
    IN  IF x.nan \/ y.nan THEN 0
        ELSE IF x.ms < y.ms THEN -1
        ELSE IF x.ms > y.ms THEN 1
        ELSE 0

Range(s) == {s[i] : i \in 1..Len(s)}

\* ECMAScript "consistent comparator" for the elements of s
Consistent(s, dir) ==
    \A a, b, c \in Range(s) :
        /\ (Compare(a, b, dir) = 0 /\ Compare(b, c, dir) = 0) => Compare(a, c, dir) = 0
        /\ (Compare(a, b, dir) < 0 /\ Compare(b, c, dir) < 0) => Compare(a, c, dir) < 0
        /\ (Compare(a, b, dir) > 0 /\ Compare(b, c, dir) > 0) => Compare(a, c, dir) > 0

RECURSIVE InsertStable(_, _, _)
\* x goes after every element that does not compare greater than it
InsertStable(sorted, x, dir) ==
    IF sorted = <<>> THEN <<x>>
    ELSE IF Compare(sorted[Len(sorted)], x, dir) <= 0
         THEN Append(sorted, x)
         ELSE Append(InsertStable(SubSeq(sorted, 1, Len(sorted) - 1), x, dir),
                     sorted[Len(sorted)])

RECURSIVE StableSort(_, _)
StableSort(s, dir) ==
    IF s = <<>> THEN <<>>
    ELSE InsertStable(StableSort(SubSeq(s, 1, Len(s) - 1), dir), s[Len(s)], dir)

Bijections(n) == {p \in [1..n -> 1..n] : \A i, j \in 1..n : p[i] = p[j] => i = j}

Permutations(s) == {[i \in 1..Len(s) |-> s[p[i]]] : p \in Bijections(Len(s))}

\* The results sort may produce: the stable sorted order when the comparator
\* is consistent, an implementation-defined permutation otherwise.
SortOutcomes(s, dir) ==
    IF Consistent(s, dir) THEN {StableSort(s, dir)} ELSE Permutations(s)

----------------------------------------------------------------------------
(* Telemetry records *)

MetricKeys == {"temperature", "humidity", "pressure", "percentage_light_intensity"}

Entry(ts, t, h, p, l) ==
    [timestamp |-> ts, temperature |-> t, humidity |-> h, pressure |-> p,
     percentage_light_intensity |-> l]

Timestamps ==
    { TsPrim(Undefined), TsPrim(Null), TsPrim(JNum(0)), TsPrim(JNum(1000)),
      TsPrim(JNum(2000)), TsPrim(JStr("")), TsPrim(JStr("not-a-date")),
      TsPrim(JStr("1970-01-01T00:00:01.500Z")),
      TsObj(JStr("1970-01-01T00:00:02Z")), TsObj(JNum(1000)),
      TsObj(JStr("not-a-date")), TsObj(Undefined), TsObj(JObj) }

Records ==
    {Entry(ts, JNum(21), Undefined, Undefined, Undefined) : ts \in Timestamps}
    \cup
    {Entry(ts, m[1], m[2], m[3], m[4]) :
        ts \in {TsPrim(Undefined), TsPrim(JNum(1000))},
        m \in { <<Undefined, Undefined, Undefined, Undefined>>,
                <<JNum(0), Undefined, Undefined, Undefined>>,
                <<Undefined, JNum(50), Undefined, JNum(7)>>,
                <<Null, Undefined, JNum(1013), JNum(0)>> }}

\* Records that differ in what the derivations branch on: instants in and out
\* of order, an unparseable date, no telemetry, a zero, the optional metric.
CoreRecords ==
    { Entry(TsPrim(JNum(1000)), JNum(21), Undefined, Undefined, Undefined),
      Entry(TsPrim(JNum(2000)), JNum(21), Undefined, Undefined, Undefined),
      Entry(TsPrim(JStr("not-a-date")), JNum(21), Undefined, Undefined, Undefined),
      Entry(TsPrim(Undefined), Undefined, Undefined, Undefined, Undefined),
      Entry(TsPrim(JNum(1000)), JNum(0), Undefined, Undefined, Undefined),
      Entry(TsPrim(JNum(1000)), Undefined, JNum(50), Undefined, JNum(7)),
      Entry(TsPrim(Undefined), Null, Undefined, JNum(1013), JNum(0)) }

\* Batches of up to MaxLen core records, and of up to MaxMixedLen records of any shape
Batches ==
    UNION {[1..n -> CoreRecords] : n \in 0..MaxLen}
    \cup UNION {[1..n -> Records] : n \in 0..MaxMixedLen}

\* What the backend answers to /api/profiles/<id>/data in the store model
Responses ==
    { <<>>,
      << Entry(TsPrim(JNum(1000)), JNum(21), Undefined, Undefined, Undefined),
         Entry(TsPrim(JNum(2000)), JNum(21), Undefined, Undefined, Undefined) >>,
      << Entry(TsPrim(JNum(1000)), Undefined, JNum(50), Undefined, JNum(7)) >> }

----------------------------------------------------------------------------
(* Profiles and markers *)

NullName == ""

\* name / profileName: "" stands for an absent (falsy) field
ProfileList ==
    << [id |-> 1, name |-> "Colombo", profileName |-> "", coordsOk |-> TRUE],
       [id |-> 2, name |-> "", profileName |-> "", coordsOk |-> TRUE],
       [id |-> 3, name |-> "", profileName |-> "Kandy", coordsOk |-> FALSE] >>

displayName(profile) ==
    IF profile.name # "" THEN profile.name
    ELSE IF profile.profileName # "" THEN profile.profileName
    ELSE "Unnamed profile"

\* One marker per profile whose latestCoords is a two-element array
Markers(ps) ==
    {[id |-> ps[i].id, name |-> displayName(ps[i])] :
        i \in {j \in 1..Len(ps) : ps[j].coordsOk}}

----------------------------------------------------------------------------
(* Derivations computed by a render *)

hasData(arr, sel) == sel # 0 /\ Len(arr) > 0

hasLightIntensity(arr, sel) ==
    hasData(arr, sel) /\ \E i \in 1..Len(arr) : NotNullish(arr[i].percentage_light_intensity)

ChartKeys(arr, sel) ==
    IF ~hasData(arr, sel) THEN {}
    ELSE {"temperature", "humidity", "pressure"}
         \cup (IF hasLightIntensity(arr, sel) THEN {"percentage_light_intensity"} ELSE {})

HasAnyTelemetry(entry) ==
    \/ NotNullish(entry.temperature)
    \/ NotNullish(entry.humidity)
    \/ NotNullish(entry.pressure)
    \/ NotNullish(entry.percentage_light_intensity)

KeepForSeriesTruthy(entry, key) == Truthy(entry[key])

KeepForSeries(entry, key) == NotNullish(entry[key])

seriesFilter(arr, key) ==
    SelectSeq(SelectSeq(arr, HasAnyTelemetry), LAMBDA e : KeepForSeries(e, key))

seriesPoints(recs, key) ==
    [i \in 1..Len(recs) |-> [time |-> formatTimestamp(recs[i]), value |-> recs[i][key]]]

\* value || 'N/A'
Cell(v) == IF Truthy(v) THEN v ELSE JStr("N/A")

tableRow(entry, light) ==
    [dateStr |-> dateStr(entry),
     temperature |-> Cell(entry.temperature),
     humidity |-> Cell(entry.humidity),
     pressure |-> Cell(entry.pressure),
     light |-> IF light THEN Cell(entry.percentage_light_intensity) ELSE Undefined]

tableRowsSkipEmpty(sorted, light) ==
    LET kept == SelectSeq(sorted, HasAnyTelemetry)
    IN  [i \in 1..Len(kept) |-> tableRow(kept[i], light)]

tableRows(sorted, light) ==
    [i \in 1..Len(sorted) |-> tableRow(sorted[i], light)]

\* The sorted records behind the series of one key ({<<>>} when no chart is drawn)
SeriesOutcomes(arr, sel, key) ==
    IF key \in ChartKeys(arr, sel)
    THEN SortOutcomes(seriesFilter(arr, key), "asc")
    ELSE {<<>>}

EmptySeries == [k \in MetricKeys |-> <<>>]

View(ps, arr, sel, name, sr, tr) ==
    [markers    |-> Markers(ps),
     card       |-> IF hasData(arr, sel) THEN "table"
                    ELSE IF sel # 0 THEN "empty" ELSE "prompt",
     title      |-> IF hasData(arr, sel) THEN name ELSE NullName,
     input      |-> arr,
     charts     |-> ChartKeys(arr, sel),
     seriesRecs |-> sr,
     seriesData |-> [k \in MetricKeys |-> seriesPoints(sr[k], k)],
     tableRecs  |-> tr,
     tableRows  |-> tableRows(tr, hasLightIntensity(arr, sel))]

----------------------------------------------------------------------------
(* State after the first render of App: nothing loaded, both fetch effects idle
   except the profile list request issued by useEffect. *)

Init ==
    /\ profiles = <<>>
    /\ profilesReq = "pending"
    /\ requests = <<>>
    /\ arrays = <<>>
    /\ selectedData = 0
    /\ selectedProfile = NullName
    /\ errors = 0
    /\ resolveOrder = <<>>
    /\ pc = "idle"
    /\ cur = 0
    /\ view = View(<<>>, <<>>, 0, NullName, EmptySeries, <<>>)

----------------------------------------------------------------------------
(* The profile list fetch of useEffect *)

ProfilesLoaded ==
    /\ pc = "idle"
    /\ profilesReq = "pending"
    /\ profilesReq' = "ok"
    /\ profiles' = ProfileList
    /\ pc' = "render"
    /\ UNCHANGED <<requests, arrays, selectedData, selectedProfile, errors,
                   resolveOrder, cur, view>>

ProfilesFailed ==
    /\ pc = "idle"
    /\ profilesReq = "pending"
    /\ profilesReq' = "failed"
    /\ errors' = errors + 1
    /\ UNCHANGED <<profiles, requests, arrays, selectedData, selectedProfile,
                   resolveOrder, pc, cur, view>>

----------------------------------------------------------------------------
(* handleClick and the two callbacks of its promise *)

\* A click on a rendered marker issues one GET; nothing else changes.
handleClick(m) ==
    /\ pc = "idle"
    /\ m \in view.markers
    /\ Len(requests) < MaxRequests
    /\ requests' = Append(requests, [id |-> m.id, name |-> m.name, status |-> "pending"])
    /\ arrays' = Append(arrays, <<>>)
    /\ UNCHANGED <<profiles, profilesReq, selectedData, selectedProfile, errors,
                   resolveOrder, pc, cur, view>>

\* A generation guard: only the latest selection may write the store.
ThenSetDataIfLatest(k, data) ==
    /\ pc = "idle"
    /\ k \in 1..Len(requests)
    /\ requests[k].status = "pending"
    /\ arrays' = [arrays EXCEPT ![k] = data]
    /\ selectedData' = IF k = Len(requests) THEN k ELSE selectedData
    /\ requests' = [requests EXCEPT ![k].status = "ok"]
    /\ resolveOrder' = Append(resolveOrder, k)
    /\ cur' = k
    /\ pc' = "then47"
    /\ UNCHANGED <<profiles, profilesReq, selectedProfile, errors, view>>

\* .then, first statement: setSelectedData(res.data)
ThenSetData(k, data) ==
    /\ pc = "idle"
    /\ k \in 1..Len(requests)
    /\ requests[k].status = "pending"
    /\ arrays' = [arrays EXCEPT ![k] = data]
    /\ selectedData' = k
    /\ requests' = [requests EXCEPT ![k].status = "ok"]
    /\ resolveOrder' = Append(resolveOrder, k)
    /\ cur' = k
    /\ pc' = "then47"
    /\ UNCHANGED <<profiles, profilesReq, selectedProfile, errors, view>>

\* The second setState call left out.
ThenKeepProfile ==
    /\ pc = "then47"
    /\ cur' = 0
    /\ pc' = "render"
    /\ UNCHANGED <<profiles, profilesReq, requests, arrays, selectedData,
                   selectedProfile, errors, resolveOrder, view>>

\* .then, second statement: setSelectedProfile(name)
ThenSetProfile ==
    /\ pc = "then47"
    /\ selectedProfile' = requests[cur].name
    /\ cur' = 0
    /\ pc' = "render"
    /\ UNCHANGED <<profiles, profilesReq, requests, arrays, selectedData,
                   errors, resolveOrder, view>>

\* A failure handler that also clears the batch.
CatchClearsData(k) ==
    /\ pc = "idle"
    /\ k \in 1..Len(requests)
    /\ requests[k].status = "pending"
    /\ requests' = [requests EXCEPT ![k].status = "failed"]
    /\ resolveOrder' = Append(resolveOrder, k)
    /\ errors' = errors + 1
    /\ selectedData' = 0
    /\ UNCHANGED <<profiles, profilesReq, arrays, selectedProfile, pc, cur, view>>

\* .catch: console.error only
Catch(k) ==
    /\ pc = "idle"
    /\ k \in 1..Len(requests)
    /\ requests[k].status = "pending"
    /\ requests' = [requests EXCEPT ![k].status = "failed"]
    /\ resolveOrder' = Append(resolveOrder, k)
    /\ errors' = errors + 1
    /\ UNCHANGED <<profiles, profilesReq, arrays, selectedData, selectedProfile,
                   pc, cur, view>>

----------------------------------------------------------------------------
(* Rendering *)

\* When React re-renders after state was set: once, after the callback that
\* set it has returned (updates of one callback are flushed together).
RenderScheduled == pc = "render"

CurrentArray == IF selectedData = 0 THEN <<>> ELSE arrays[selectedData]

\* One render of App: the chart series are built from copies of the batch,
\* then the table sorts the batch array itself.
Render ==
    /\ RenderScheduled
    /\ LET arr == CurrentArray
           sel == selectedData
       IN  \E st \in SeriesOutcomes(arr, sel, "temperature"),
              sh \in SeriesOutcomes(arr, sel, "humidity"),
              sp \in SeriesOutcomes(arr, sel, "pressure"),
              sl \in SeriesOutcomes(arr, sel, "percentage_light_intensity"),
              tr \in (IF hasData(arr, sel) THEN SortOutcomes(arr, "desc") ELSE {<<>>}) :
             /\ view' = View(profiles, arr, sel, selectedProfile,
                             [k \in MetricKeys |->
                                 CASE k = "temperature" -> st
                                   [] k = "humidity" -> sh
                                   [] k = "pressure" -> sp
                                   [] OTHER -> sl],
                             tr)
             /\ arrays' = IF hasData(arr, sel)
                          THEN [arrays EXCEPT ![sel] = tr]
                          ELSE arrays
    /\ pc' = "idle"
    /\ UNCHANGED <<profiles, profilesReq, requests, selectedData, selectedProfile,
                   errors, resolveOrder, cur>>

----------------------------------------------------------------------------
(* Specifications *)

Next ==
    \/ ProfilesLoaded
    \/ ProfilesFailed
    \/ \E m \in view.markers : handleClick(m)
    \/ \E k \in 1..Len(requests), data \in Responses : ThenSetData(k, data)
    \/ ThenSetProfile
    \/ \E k \in 1..Len(requests) : Catch(k)
    \/ Render

Spec == Init /\ [][Next]_vars

\* The derivations on every batch: the store right after the first selection
\* of a marker resolved with an arbitrary batch, its render pending.
InitDeriv ==
    \E b \in Batches, m \in {[id |-> ProfileList[1].id, name |-> displayName(ProfileList[1])]} :
        /\ profiles = ProfileList
        /\ profilesReq = "ok"
        /\ requests = <<[id |-> m.id, name |-> m.name, status |-> "ok"]>>
        /\ arrays = <<b>>
        /\ selectedData = 1
        /\ selectedProfile = m.name
        /\ errors = 0
        /\ resolveOrder = <<1>>
        /\ pc = "render"
        /\ cur = 0
        /\ view = View(ProfileList, <<>>, 0, NullName, EmptySeries, <<>>)

NextDeriv == Render

SpecDeriv == InitDeriv /\ [][NextDeriv]_vars

----------------------------------------------------------------------------
(* Properties of the selection store (checked under Spec) *)

\* The request whose successful response arrived last (0 = none yet)
LastOk ==
    LET oks == {i \in 1..Len(resolveOrder) : requests[resolveOrder[i]].status = "ok"}
    IN  IF oks = {} THEN 0
        ELSE resolveOrder[CHOOSE i \in oks : \A j \in oks : j <= i]

\* C1: a step in which a telemetry fetch fails changes neither selectedData
\* nor selectedProfile nor any fetched array, and issues no further request.
FetchFailureLeavesStore ==
    [][\A k \in 1..Len(requests) :
          (requests[k].status = "pending" /\ requests'[k].status = "failed")
          => /\ selectedData' = selectedData
             /\ selectedProfile' = selectedProfile
             /\ arrays' = arrays
             /\ Len(requests') = Len(requests)
             /\ \A j \in 1..Len(requests) : j # k => requests'[j] = requests[j]
             /\ errors' = errors + 1]_vars

\* C1 witness: a fetch failed after an earlier one had loaded a batch, and the
\* store still holds that batch and its name.
FailureAfterLoadedBatch ==
    /\ pc = "idle"
    /\ \E i, j \in 1..Len(resolveOrder) :
          /\ i < j
          /\ requests[resolveOrder[i]].status = "ok"
          /\ requests[resolveOrder[j]].status = "failed"
          /\ selectedData = resolveOrder[i]
          /\ selectedProfile = requests[resolveOrder[i]].name
          /\ Len(arrays[selectedData]) > 0

\* C2: whenever a render can observe the store, selectedData and
\* selectedProfile are both null or both written by the same resolved request.
StoreReplacedAtomically ==
    (RenderScheduled \/ pc = "idle")
    => \/ selectedData = 0 /\ selectedProfile = NullName
       \/ /\ selectedData # 0
          /\ requests[selectedData].status = "ok"
          /\ selectedProfile = requests[selectedData].name

\* C2 witness: a second selection with another name replaced a loaded pair and
\* its render is due.
SecondSelectionObserved ==
    /\ RenderScheduled
    /\ selectedData > 1
    /\ requests[1].status = "ok"
    /\ requests[selectedData].name # requests[1].name
    /\ selectedProfile = requests[selectedData].name

\* C3: outside the .then callback the store holds the batch and name of the
\* response that arrived last, whichever selection was issued last.
StoreHoldsLastResolved ==
    pc # "then47"
    => IF LastOk = 0
       THEN selectedData = 0 /\ selectedProfile = NullName
       ELSE selectedData = LastOk /\ selectedProfile = requests[LastOk].name

\* C3 witness: selection N+1 resolved first, N resolved after it, and the store
\* shows N although N+1 is the latest selection.
StaleStateReached ==
    /\ pc = "idle"
    /\ Len(resolveOrder) >= 2
    /\ LET n1 == resolveOrder[Len(resolveOrder) - 1]
           n  == resolveOrder[Len(resolveOrder)]
       IN  /\ n < n1
           /\ n1 = Len(requests)
           /\ requests[n].status = "ok"
           /\ requests[n1].status = "ok"
           /\ requests[n].name # requests[n1].name
           /\ selectedData = n
           /\ selectedProfile = requests[n].name
           /\ view.title = requests[n].name

----------------------------------------------------------------------------
(* Properties of the derivations (checked under SpecDeriv) *)

Count(s, x) == Cardinality({i \in 1..Len(s) : s[i] = x})

IsPermutation(s, t) ==
    /\ Len(s) = Len(t)
    /\ \A x \in Range(s) \cup Range(t) : Count(s, x) = Count(t, x)

\* a <= b on numbers; false when either is NaN
Leq(a, b) == ~a.nan /\ ~b.nan /\ a.ms <= b.ms

\* Missing, null, an object without a date sub-field, or a string or wrapped
\* value that does not parse
Malformed(ts) ==
    \/ ts.t \in {"undefined", "null"}
    \/ ts.t = "object" /\ ts.date.t = "undefined"
    \/ ts.t = "string" /\ NewDate(AsPrim(ts)).nan
    \/ ts.t = "object" /\ ts.date.t # "undefined" /\ NewDate(ts.date).nan

\* C4: a render leaves every fetched array, the current batch included,
\* as it was, order included.
RenderLeavesBatchUnchanged ==
    [][(pc = "render" /\ pc' = "idle") => arrays' = arrays]_vars

\* C5: a record with a malformed or absent timestamp has instant 0, chart
\* display 'Invalid' and table display 'Invalid or Missing Date'.
MalformedGivesSentinel ==
    pc = "idle"
    => /\ \A i \in 1..Len(view.tableRecs) :
             Malformed(view.tableRecs[i].timestamp)
             => /\ getTimeValue(view.tableRecs[i]) = Ms(0)
                /\ view.tableRows[i].dateStr = Text("Invalid or Missing Date")
       /\ \A k \in view.charts : \A i \in 1..Len(view.seriesRecs[k]) :
             Malformed(view.seriesRecs[k][i].timestamp)
             => /\ getTimeValue(view.seriesRecs[k][i]) = Ms(0)
                /\ view.seriesData[k][i].time = Text("Invalid")

\* Records of s, in order, that are kept for key k and resolve to instant t
SameInstant(s, k, t) ==
    SelectSeq(s, LAMBDA e : NotNullish(e[k]) /\ getTimeValue(e) = t)

\* C6: every series is ascending by instant over adjacent points, and records
\* of equal instant keep their batch order.
SeriesAscending ==
    pc = "idle"
    => \A k \in view.charts :
          /\ \A i \in 1..(Len(view.seriesRecs[k]) - 1) :
                Leq(getTimeValue(view.seriesRecs[k][i]),
                    getTimeValue(view.seriesRecs[k][i + 1]))
          /\ \A e \in Range(view.seriesRecs[k]) :
                SameInstant(view.seriesRecs[k], k, getTimeValue(e))
                = SameInstant(view.input, k, getTimeValue(e))

\* C7: the table rows are descending by instant over adjacent rows.
TableDescending ==
    pc = "idle"
    => \A i \in 1..(Len(view.tableRecs) - 1) :
          Leq(getTimeValue(view.tableRecs[i + 1]), getTimeValue(view.tableRecs[i]))

\* C8: the series of a key holds exactly the records of the batch whose value
\* for the key is non-null, one point each, with the raw value.
SeriesHoldsExactlyRecordsWithMetric ==
    pc = "idle"
    => \A k \in view.charts :
          /\ IsPermutation(view.seriesRecs[k],
                           SelectSeq(view.input, LAMBDA e : NotNullish(e[k])))
          /\ Len(view.seriesData[k]) = Len(view.seriesRecs[k])
          /\ \A i \in 1..Len(view.seriesData[k]) :
                view.seriesData[k][i].value = view.seriesRecs[k][i][k]

\* C8 witness: a rendered temperature series that keeps a 0 reading while the
\* batch also holds a record without temperature and one without telemetry.
SeriesKeepsZeroSkipsMissing ==
    /\ pc = "idle"
    /\ "temperature" \in view.charts
    /\ \E i \in 1..Len(view.seriesData["temperature"]) :
          view.seriesData["temperature"][i].value = JNum(0)
    /\ \E j \in 1..Len(view.input) :
          ~HasAnyTelemetry(view.input[j])
    /\ \E j \in 1..Len(view.input) :
          HasAnyTelemetry(view.input[j]) /\ ~NotNullish(view.input[j].temperature)
    /\ view.seriesData["pressure"] = <<>>

\* C9: the table has one row per record of the batch.
TableRowPerRecord ==
    (pc = "idle" /\ selectedData # 0)
    => /\ Len(view.tableRows) = Len(arrays[selectedData])
       /\ Len(view.tableRows) = Len(view.input)

\* C9 witness: a rendered table of a batch holding a record without telemetry
\* and without timestamp.
TableKeepsEmptyRecord ==
    /\ pc = "idle"
    /\ selectedData # 0
    /\ Len(view.tableRows) >= 2
    /\ \E j \in 1..Len(view.input) :
          ~HasAnyTelemetry(view.input[j]) /\ view.input[j].timestamp.t = "undefined"

\* C10: a numeric timestamp is its own instant and is displayed as that date
\* in chart and table; a timestamp object with a date sub-field is resolved
\* from that sub-field by all three accessors.
PrecedenceFirstMatch ==
    pc = "idle"
    => \A i \in 1..Len(view.tableRecs) :
          LET e  == view.tableRecs[i]
              ts == e.timestamp
          IN  /\ ts.t = "number"
                 => /\ getTimeValue(e) = Ms(ts.n)
                    /\ formatTimestamp(e) = toLocaleString(Ms(ts.n))
                    /\ view.tableRows[i].dateStr = toLocaleString(Ms(ts.n))
              /\ (ts.t = "object" /\ ts.date.t # "undefined")
                 => /\ getTimeValue(e) = NewDate(ts.date)
                    /\ formatTimestamp(e) = toLocaleString(NewDate(ts.date))
                    /\ view.tableRows[i].dateStr = toLocaleString(NewDate(ts.date))

====
